---- MODULE Spec2Model ----
(***************************************************************************)
(* ratex: a tree-walking interpreter (scanner and parser are outside the   *)
(* model).  The model covers the static resolver (resolver.rs), the        *)
(* environment chain (environment.rs), the callable / class protocol       *)
(* (functions.rs, class.rs) and the evaluator (interpreter.rs), driven the *)
(* way main.rs::run drives them: resolve the statement list, then          *)
(* interpret it.                                                           *)
(*                                                                         *)
(* The recursive visitor is unfolded into a machine with an explicit       *)
(* stack of frames (one frame per active Rust call of a visit_* method,    *)
(* of execute_block or of interpret) and a register `ret` that carries the *)
(* Result a finished call hands to its caller.  A Rust panic (unwrap on    *)
(* None, RefCell double borrow, "Cannot visit empty") ends the run with    *)
(* status "panic".                                                         *)
(***************************************************************************)
EXTENDS Integers, Sequences, FiniteSets

(***************************************************************************)
(* Bounds of the model.                                                    *)
(***************************************************************************)
MaxStack == 24
MaxEnvs == 12
MaxFmtDepth == 6
MaxScopes == 2
MaxUnitEnvs == 3

(***************************************************************************)
(* Runtime values: ast/mod.rs Object.  Numbers are integers here; the      *)
(* field n holds the number, the truth value (0/1) or the heap index of    *)
(* the function, class or instance.                                        *)
(***************************************************************************)
NumV(x) == [k |-> "Number", n |-> x]
BoolV(b) == [k |-> "Bool", n |-> IF b THEN 1 ELSE 0]
NilV == [k |-> "Nil", n |-> 0]
FunV(id) == [k |-> "Function", n |-> id]
ClassV(id) == [k |-> "Class", n |-> id]
InstV(id) == [k |-> "Instance", n |-> id]

is_truthy(v) ==
    CASE v.k = "Bool" -> v.n = 1
      [] v.k = "Number" -> v.n # 0
      [] v.k = "Nil" -> FALSE
      [] OTHER -> TRUE

(***************************************************************************)
(* AST nodes: ast/mod.rs.  A node is a record; two nodes with the same     *)
(* fields are equal, which is the derived PartialEq/Eq/Hash of             *)
(* ast_macro.rs (the interpreter's locals table is keyed that way).        *)
(* A token is represented by its lexeme and its line.                      *)
(***************************************************************************)
EmptyNode == [t |-> "Empty"]
Literal(v) == [t |-> "Literal", lit |-> v]
Variable(nm, ln) == [t |-> "Variable", name |-> nm, line |-> ln]
Assign(nm, ln, e) == [t |-> "Assign", name |-> nm, line |-> ln, value |-> e]
Binary(l, o, r) == [t |-> "Binary", left |-> l, op |-> o, right |-> r]
Logical(l, o, r) == [t |-> "Logical", left |-> l, op |-> o, right |-> r]
Unary(o, r) == [t |-> "Unary", op |-> o, right |-> r]
Grouping(e) == [t |-> "Grouping", expr |-> e]
Call(c, as) == [t |-> "Call", callee |-> c, arguments |-> as]
Get(o, nm) == [t |-> "Get", object |-> o, name |-> nm]
Set(o, nm, e) == [t |-> "Set", object |-> o, name |-> nm, value |-> e]
This(ln) == [t |-> "This", name |-> "this", line |-> ln]
Lambda(ps, b) == [t |-> "Lambda", params |-> ps, body |-> b]

Block(ss) == [t |-> "Block", statements |-> ss]
Class(nm, ms) == [t |-> "Class", name |-> nm, methods |-> ms]
Expression(e) == [t |-> "Expression", expr |-> e]
If(c, th, el) == [t |-> "If", condition |-> c, then_stmt |-> th, else_stmt |-> el]
Fun(nm, ps, b) == [t |-> "Fun", name |-> nm, params |-> ps, body |-> b]
While(c, b) == [t |-> "While", condition |-> c, body |-> b]
Break == [t |-> "Break"]
PrintS(e) == [t |-> "Print", expr |-> e]
Return(e) == [t |-> "Return", value |-> e]
Var(nm, e) == [t |-> "Var", name |-> nm, initialiser |-> e]

(***************************************************************************)
(* Finite maps (HashMap<String, _>, HashMap<Rc<Expr>, usize>).             *)
(***************************************************************************)
EmptyMap == [x \in {} |-> NilV]
Put(m, key, v) == [x \in (DOMAIN m) \cup {key} |-> IF x = key THEN v ELSE m[x]]
Last(s) == s[Len(s)]
Front(s) == SubSeq(s, 1, Len(s) - 1)
Max(S) == CHOOSE x \in S : \A y \in S : y <= x

(***************************************************************************)
(* Resolver (resolver.rs).  rs is the Resolver struct together with the    *)
(* interpreter's locals table it writes through interpreter.resolve; err   *)
(* is the Err a `?` is carrying out of the pass ("" when there is none).   *)
(***************************************************************************)
NoErr == ""

begin_scope(rs) == [rs EXCEPT !.scopes = Append(@, EmptyMap)]

end_scope(rs) == [rs EXCEPT !.scopes = IF @ = <<>> THEN @ ELSE Front(@)]

\* a declare that would take a second declaration in the same scope
declare_overwriting(rs, nm) ==
    IF rs.scopes = <<>> THEN rs
    ELSE [rs EXCEPT !.scopes[Len(rs.scopes)] = Put(@, nm, FALSE)]

declare(rs, nm) ==
    IF rs.scopes = <<>> THEN rs
    ELSE IF nm \in DOMAIN Last(rs.scopes)
         THEN [rs EXCEPT !.err = "RedeclareLocalVariable"]
         ELSE [rs EXCEPT !.scopes[Len(rs.scopes)] = Put(@, nm, FALSE)]

define(rs, nm) ==
    IF rs.scopes = <<>> THEN rs
    ELSE [rs EXCEPT !.scopes[Len(rs.scopes)] = Put(@, nm, TRUE)]

resolve(loc, expr, depth) == Put(loc, expr, depth)

resolve_local(rs, target, nm) ==
    LET hits == {i \in 1..Len(rs.scopes) : nm \in DOMAIN rs.scopes[i]}
    IN  IF hits = {} THEN rs
        ELSE [rs EXCEPT !.locals = resolve(@, target, Len(rs.scopes) - Max(hits))]

RECURSIVE resolve_stmt(_, _)
RECURSIVE resolve_expr(_, _)
RECURSIVE resolve_list(_, _)
RECURSIVE resolve_exprs(_, _)
RECURSIVE resolve_params(_, _)
RECURSIVE resolve_methods(_, _)

resolve_list(rs, statements) ==
    IF statements = <<>> \/ rs.err # NoErr THEN rs
    ELSE resolve_list(resolve_stmt(rs, Head(statements)), Tail(statements))

resolve_exprs(rs, exprs) ==
    IF exprs = <<>> \/ rs.err # NoErr THEN rs
    ELSE resolve_exprs(resolve_expr(rs, Head(exprs)), Tail(exprs))

resolve_params(rs, params) ==
    IF params = <<>> \/ rs.err # NoErr THEN rs
    ELSE LET d == declare(rs, Head(params))
         IN  IF d.err # NoErr THEN d
             ELSE resolve_params(define(d, Head(params)), Tail(params))

\* a resolve_function that would not close the scope it opened
resolve_function_unbalanced(rs, fun, func_type) ==
    LET enclosing_function == rs.current_function
        r1 == begin_scope([rs EXCEPT !.current_function = func_type])
        r2 == resolve_params(r1, fun.params)
        r3 == resolve_list(r2, fun.body)
    IN  IF r3.err # NoErr THEN r3
        ELSE [r3 EXCEPT !.current_function = enclosing_function]

\* a resolve_function that would leave func_type in place when it is done
resolve_function_no_restore(rs, fun, func_type) ==
    LET r1 == begin_scope([rs EXCEPT !.current_function = func_type])
        r2 == resolve_params(r1, fun.params)
        r3 == resolve_list(r2, fun.body)
    IN  IF r3.err # NoErr THEN r3
        ELSE end_scope(r3)

resolve_function(rs, fun, func_type) ==
    LET enclosing_function == rs.current_function
        r1 == begin_scope([rs EXCEPT !.current_function = func_type])
        r2 == resolve_params(r1, fun.params)
        r3 == resolve_list(r2, fun.body)
    IN  IF r3.err # NoErr THEN r3
        ELSE [end_scope(r3) EXCEPT !.current_function = enclosing_function]

resolve_methods(rs, methods) ==
    IF methods = <<>> \/ rs.err # NoErr THEN rs
    ELSE resolve_methods(
             IF Head(methods).t = "Fun"
             THEN resolve_function(rs, Head(methods), "Method")
             ELSE rs,
             Tail(methods))

resolve_expr(rs, e) ==
    CASE e.t \in {"Binary", "Logical"} ->
            resolve_exprs(rs, <<e.left, e.right>>)
      [] e.t = "Unary" -> resolve_expr(rs, e.right)
      [] e.t = "Literal" -> rs
      [] e.t = "Grouping" -> resolve_expr(rs, e.expr)
      [] e.t = "Variable" ->
            IF Len(rs.scopes) > 0
            THEN IF /\ e.name \in DOMAIN Last(rs.scopes)
                    /\ ~Last(rs.scopes)[e.name]
                 THEN [rs EXCEPT !.err = "Break"]
                 ELSE resolve_local(rs, e, e.name)
            ELSE rs
      [] e.t = "Assign" ->
            LET r1 == resolve_expr(rs, e.value)
            IN  IF r1.err # NoErr THEN r1 ELSE resolve_local(r1, e, e.name)
      [] e.t = "Call" -> resolve_exprs(rs, <<e.callee>> \o e.arguments)
      [] e.t = "Lambda" -> resolve_list(rs, e.body)
      [] e.t = "Get" -> resolve_expr(rs, e.object)
      [] e.t = "Set" -> resolve_exprs(rs, <<e.value, e.object>>)
      [] e.t = "This" -> resolve_local(rs, e, e.name)

resolve_stmt(rs, s) ==
    CASE s.t = "Block" ->
            LET r1 == resolve_list(begin_scope(rs), s.statements)
            IN  IF r1.err # NoErr THEN r1 ELSE end_scope(r1)
      [] s.t = "Expression" -> resolve_expr(rs, s.expr)
      [] s.t = "If" ->
            LET r1 == resolve_expr(rs, s.condition)
                r2 == IF r1.err # NoErr THEN r1 ELSE resolve_stmt(r1, s.then_stmt)
            IN  IF r2.err # NoErr \/ s.else_stmt = EmptyNode THEN r2
                ELSE resolve_stmt(r2, s.else_stmt)
      [] s.t = "Fun" ->
            LET r1 == declare(rs, s.name)
            IN  IF r1.err # NoErr THEN r1
                ELSE resolve_function(define(r1, s.name), s, "Function")
      [] s.t = "While" ->
            LET r1 == resolve_expr(rs, s.condition)
            IN  IF r1.err # NoErr THEN r1 ELSE resolve_stmt(r1, s.body)
      [] s.t = "Break" -> rs
      [] s.t = "Print" -> resolve_expr(rs, s.expr)
      [] s.t = "Return" ->
            IF rs.current_function = "None"
            THEN [rs EXCEPT !.err = "InvalidReturnLocation"]
            ELSE IF s.value = EmptyNode THEN rs ELSE resolve_expr(rs, s.value)
      [] s.t = "Var" ->
            LET r1 == declare(rs, s.name)
                r2 == IF r1.err # NoErr \/ s.initialiser = EmptyNode THEN r1
                      ELSE resolve_expr(r1, s.initialiser)
            IN  IF r2.err # NoErr THEN r2 ELSE define(r2, s.name)
      [] s.t = "Class" ->
            LET r1 == declare(rs, s.name)
                r2 == [begin_scope(define(r1, s.name)) EXCEPT
                          !.scopes[Len(r1.scopes) + 1] = Put(@, "this", TRUE)]
                r3 == resolve_methods(r2, s.methods)
            IN  IF r1.err # NoErr THEN r1
                ELSE IF r3.err # NoErr THEN r3 ELSE end_scope(r3)

(***************************************************************************)
(* Environment (environment.rs).  The Rc<RefCell<Environment>> objects     *)
(* live in the sequence envs (H below) and are named by their index;       *)
(* enclosing = 0 is None.                                                  *)
(***************************************************************************)
new_child(parent) == [values |-> EmptyMap, enclosing |-> parent]

env_define(H, e, nm, v) == [H EXCEPT ![e].values = Put(@, nm, v)]

RECURSIVE env_holder(_, _, _)
\* the environment of e's chain in which get / assign find nm (0: none)
env_holder(H, e, nm) ==
    IF nm \in DOMAIN H[e].values THEN e
    ELSE IF H[e].enclosing = 0 THEN 0
    ELSE env_holder(H, H[e].enclosing, nm)

NoRet == [kind |-> "none", e |-> "", name |-> "", v |-> NilV]
Ok(v) == [kind |-> "ok", e |-> "", name |-> "", v |-> v]
Err(e) == [kind |-> "err", e |-> e, name |-> "", v |-> NilV]
ErrName(e, nm) == [kind |-> "err", e |-> e, name |-> nm, v |-> NilV]
ErrReturn(v) == [kind |-> "err", e |-> "Return", name |-> "", v |-> v]

env_get(H, e, nm) ==
    LET h == env_holder(H, e, nm)
    IN  IF h = 0 THEN ErrName("UndefinedIdentifier", nm) ELSE Ok(H[h].values[nm])

\* an assign that would define the name in the environment it is called on
\* when no environment of the chain holds it
env_assign_creating(H, e, nm, v) ==
    LET h == env_holder(H, e, nm)
    IN  IF h = 0 THEN [envs |-> env_define(H, e, nm, v), res |-> Ok(NilV)]
        ELSE [envs |-> env_define(H, h, nm, v), res |-> Ok(NilV)]

\* the heap after assign, and the Result of assign
env_assign(H, e, nm, v) ==
    LET h == env_holder(H, e, nm)
    IN  IF h = 0 THEN [envs |-> H, res |-> ErrName("UndefinedIdentifier", nm)]
        ELSE [envs |-> env_define(H, h, nm, v), res |-> Ok(NilV)]

RECURSIVE ancestor(_, _, _)
\* 0 when an enclosing link on the way is None (the unwrap panics)
ancestor(H, e, distance) ==
    IF distance = 0 THEN e
    ELSE IF H[e].enclosing = 0 THEN 0
    ELSE ancestor(H, H[e].enclosing, distance - 1)

(***************************************************************************)
(* The Debug formatting that get_at runs on the current environment        *)
(* (println!("{:?}", &env)).  It is not a pure print: RatexFunction's      *)
(* Debug clones the closure environment and calls assign(name, Nil) on the *)
(* clone; when the clone does not hold the name the assign reaches the     *)
(* real parent through parent.borrow_mut(), which panics when the parent   *)
(* is one of the environments the formatter holds borrowed (B), and        *)
(* otherwise overwrites the real binding with Nil; the unwrap panics when  *)
(* no environment holds the name.  A HashMap is walked in an unspecified   *)
(* order, so the result is a set of outcomes.                              *)
(***************************************************************************)
FmtOk(H) == [panic |-> FALSE, envs |-> H]
FmtPanic == [panic |-> TRUE, envs |-> <<>>]

RECURSIVE fmt_assign(_, _, _, _)
fmt_assign(H, B, e, nm) ==
    IF e \in B THEN FmtPanic
    ELSE IF nm \in DOMAIN H[e].values THEN FmtOk(env_define(H, e, nm, NilV))
    ELSE IF H[e].enclosing = 0 THEN FmtPanic
    ELSE fmt_assign(H, B, H[e].enclosing, nm)

Effectful(vals) == {n \in DOMAIN vals : vals[n].k \in {"Function", "Class", "Instance"}}

RECURSIVE fmt_object(_, _, _, _, _)
RECURSIVE fmt_values(_, _, _, _, _, _)
RECURSIVE fmt_environment(_, _, _, _, _)

\* impl Debug for RatexFunction
fmt_function(m, fid, B, o, d) ==
    IF o.panic THEN {o}
    ELSE IF m.funs[fid].native THEN {o}
    ELSE IF d > MaxFmtDepth THEN {FmtPanic}
    ELSE LET f == m.funs[fid]
             nm == f.declaration.name
             closure_placeholder == o.envs[f.closure]
         IN  IF nm \in DOMAIN closure_placeholder.values
             THEN fmt_environment(m, [closure_placeholder EXCEPT !.values[nm] = NilV],
                                  B, o, d + 1)
             ELSE IF closure_placeholder.enclosing = 0 THEN {FmtPanic}
             ELSE LET a == fmt_assign(o.envs, B, closure_placeholder.enclosing, nm)
                  IN  IF a.panic THEN {FmtPanic}
                      ELSE fmt_environment(m, closure_placeholder, B, a, d + 1)

\* derived Debug of Object, RatexClass and RatexInstance
fmt_object(m, v, B, o, d) ==
    IF o.panic THEN {o}
    ELSE IF v.k = "Function" THEN fmt_function(m, v.n, B, o, d)
    ELSE IF v.k = "Class"
         THEN LET ms == m.classes[v.n].methods
              IN  fmt_values(m, ms, DOMAIN ms, B, o, d)
    ELSE IF v.k = "Instance"
         THEN IF d > MaxFmtDepth THEN {FmtPanic}
              ELSE LET ms == m.classes[m.insts[v.n].klass].methods
                       fs == m.insts[v.n].fields
                   IN  UNION {fmt_values(m, fs, Effectful(fs), B, o1, d + 1) :
                                 o1 \in fmt_values(m, ms, DOMAIN ms, B, o, d)}
    ELSE {o}

\* the entries of one HashMap, in every order
fmt_values(m, vals, names, B, o, d) ==
    IF o.panic \/ names = {} THEN {o}
    ELSE UNION {UNION {fmt_values(m, vals, names \ {n}, B, o1, d) :
                          o1 \in fmt_object(m, vals[n], B, o, d)} : n \in names}

\* impl fmt::Debug for Environment: the values, then the enclosing
\* environment under a shared borrow
fmt_environment(m, E, B, o, d) ==
    IF o.panic THEN {o}
    ELSE UNION {IF o1.panic \/ E.enclosing = 0 THEN {o1}
                ELSE fmt_environment(m, o1.envs[E.enclosing],
                                     B \cup {E.enclosing}, o1, d) :
                   o1 \in fmt_values(m, E.values, Effectful(E.values), B, o, d)}

\* println!("{:?}", &env) of get_at: RefCell's Debug borrows env itself
fmt_refcell(m, e) == fmt_environment(m, m.envs[e], {e}, FmtOk(m.envs), 0)

(***************************************************************************)
(* The evaluator (interpreter.rs) as a machine.  m is the whole runtime    *)
(* state: the heap (envs, funs, classes, insts), the RatexInterpreter      *)
(* fields (environment, globals, locals), the stack of active calls, the   *)
(* Result in flight (ret), the status of the run and what was written to   *)
(* stdout.  A frame holds the node being visited, the position in the      *)
(* handler (pc), the values computed so far (vals), and for execute_block  *)
(* its env argument, its old_environment and its statement index i.        *)
(***************************************************************************)
NewFrame(node) ==
    [node |-> node, pc |-> 0, vals |-> <<>>, old |-> 0, i |-> 0, env |-> 0]

Top(m) == m.stack[Len(m.stack)]

\* the handler on top of the stack returns r to its caller
Finish(m, r) == [m EXCEPT !.stack = Front(@), !.ret = r]

\* the handler on top (left as frame f) calls a child
EnterFrame(m, f, child) ==
    [m EXCEPT !.stack = Append([@ EXCEPT ![Len(@)] = f], child), !.ret = NoRet]

Enter(m, f, node) == EnterFrame(m, f, NewFrame(node))

Panic(m) == [m EXCEPT !.status = "panic", !.ret = NoRet]

\* `?`: an Err of the callee is returned to the caller as it is
Failed(m) == m.ret.kind = "err"

\* interpret (interpreter.rs 58-72)
interpret_loop(m, f) ==
    IF f.i >= Len(f.node.statements)
    THEN [m EXCEPT !.status = "done", !.stack = <<>>, !.ret = Ok(NilV)]
    ELSE Enter(m, [f EXCEPT !.i = @ + 1, !.pc = 1], f.node.statements[f.i + 1])

\* interpret with a Break of a statement returned like any other error
interpret_break_is_error(m) ==
    LET f == Top(m)
    IN  IF f.pc = 0 THEN interpret_loop(m, f)
        ELSE IF Failed(m)
             THEN [m EXCEPT !.status = "error", !.stack = <<>>]
             ELSE interpret_loop(m, f)

interpret(m) ==
    LET f == Top(m)
    IN  IF f.pc = 0 THEN interpret_loop(m, f)
        ELSE IF Failed(m) /\ m.ret.e # "Break"
             THEN [m EXCEPT !.status = "error", !.stack = <<>>]
             ELSE interpret_loop(m, f)

\* execute_block (interpreter.rs 36-56)
execute_block_loop(m, f) ==
    IF f.i >= Len(f.node.statements)
    THEN Finish([m EXCEPT !.environment = f.old], Ok(NilV))
    ELSE Enter(m, [f EXCEPT !.i = @ + 1, !.pc = 1], f.node.statements[f.i + 1])

execute_block(m) ==
    LET f == Top(m)
    IN  IF f.pc = 0
        THEN execute_block_loop([m EXCEPT !.environment = f.env],
                                [f EXCEPT !.old = m.environment])
        ELSE IF Failed(m) THEN Finish(m, m.ret)
             ELSE execute_block_loop(m, f)

BlockFrame(statements, env) ==
    [NewFrame([t |-> "execute_block", statements |-> statements]) EXCEPT !.env = env]

\* visit_block (interpreter.rs 302-308)
visit_block(m) ==
    LET f == Top(m)
    IN  IF f.pc = 0
        THEN EnterFrame([m EXCEPT !.envs = Append(@, new_child(m.environment))],
                        [f EXCEPT !.pc = 1],
                        BlockFrame(f.node.statements, Len(m.envs) + 1))
        ELSE Finish(m, IF Failed(m) THEN m.ret ELSE Ok(NilV))

\* visit_expression (interpreter.rs 310-313)
visit_expression(m) ==
    LET f == Top(m)
    IN  IF f.pc = 0 THEN Enter(m, [f EXCEPT !.pc = 1], f.node.expr)
        ELSE Finish(m, IF Failed(m) THEN m.ret ELSE Ok(NilV))

\* visit_if (interpreter.rs 315-325)
visit_if(m) ==
    LET f == Top(m)
    IN  IF f.pc = 0 THEN Enter(m, [f EXCEPT !.pc = 1], f.node.condition)
        ELSE IF Failed(m) THEN Finish(m, m.ret)
        ELSE IF f.pc = 2 THEN Finish(m, Ok(NilV))
        ELSE IF is_truthy(m.ret.v) THEN Enter(m, [f EXCEPT !.pc = 2], f.node.then_stmt)
        ELSE IF f.node.else_stmt = EmptyNode THEN Finish(m, Ok(NilV))
        ELSE Enter(m, [f EXCEPT !.pc = 2], f.node.else_stmt)

\* RatexFunction::new (functions.rs 81-91)
new_function(nm, declaration, closure) ==
    [name |-> nm, declaration |-> declaration, closure |-> closure, native |-> FALSE]

\* RatexFunction::bind (functions.rs 93-101) on function fn with the
\* RatexInstance value inst: the instance is passed by value and put in an
\* Rc of its own, and self.closure is replaced in place
bind(m, fn, inst) ==
    [m EXCEPT
        !.envs = Append(@, [values |-> Put(EmptyMap, "this", InstV(Len(m.insts) + 1)),
                            enclosing |-> m.funs[fn].closure]),
        !.insts = Append(@, inst),
        !.funs = [@ EXCEPT ![fn].closure = Len(m.envs) + 1]]

\* visit_fun (interpreter.rs 327-341)
visit_fun(m) ==
    LET f == Top(m)
        closure == Len(m.envs) + 1
        fid == Len(m.funs) + 1
        H == Append(m.envs, new_child(m.environment))
    IN  Finish([m EXCEPT
                   !.envs = env_define(H, m.environment, f.node.name, FunV(fid)),
                   !.funs = Append(@, new_function(f.node.name, f.node, closure))],
               Ok(NilV))

\* visit_while (interpreter.rs 343-349)
visit_while(m) ==
    LET f == Top(m)
    IN  IF f.pc = 0 THEN Enter(m, [f EXCEPT !.pc = 1], f.node.condition)
        ELSE IF Failed(m) THEN Finish(m, m.ret)
        ELSE IF f.pc = 2 THEN Enter(m, [f EXCEPT !.pc = 1], f.node.condition)
        ELSE IF is_truthy(m.ret.v) THEN Enter(m, [f EXCEPT !.pc = 2], f.node.body)
        ELSE Finish(m, Ok(NilV))

\* visit_break (interpreter.rs 351-355)
visit_break(m) == Finish(m, Err("Break"))

\* visit_print (interpreter.rs 357-361)
visit_print(m) ==
    LET f == Top(m)
    IN  IF f.pc = 0 THEN Enter(m, [f EXCEPT !.pc = 1], f.node.expr)
        ELSE IF Failed(m) THEN Finish(m, m.ret)
        ELSE Finish([m EXCEPT !.output = Append(@, m.ret.v)], Ok(NilV))

\* visit_return (interpreter.rs 363-367)
visit_return(m) ==
    LET f == Top(m)
    IN  IF f.pc = 0 THEN Enter(m, [f EXCEPT !.pc = 1], f.node.value)
        ELSE IF Failed(m) THEN Finish(m, m.ret)
        ELSE Finish(m, ErrReturn(m.ret.v))

\* visit_var (interpreter.rs 369-395); the parser only builds Var with an
\* Identifier token as its name
visit_var(m) ==
    LET f == Top(m)
    IN  IF f.pc = 0 /\ f.node.initialiser # EmptyNode
        THEN Enter(m, [f EXCEPT !.pc = 1], f.node.initialiser)
        ELSE IF f.pc = 1 /\ Failed(m) THEN Finish(m, m.ret)
        ELSE Finish([m EXCEPT !.envs = env_define(@, m.environment, f.node.name,
                                         IF f.pc = 0 THEN NilV ELSE m.ret.v)],
                    Ok(NilV))

\* RatexClass::new (class.rs 17-19)
new_class(nm, methods) == [name |-> nm, methods |-> methods]

\* visit_class (interpreter.rs 397-422)
visit_class(m) ==
    LET f == Top(m)
        ms == f.node.methods
        funs0 == Len(m.funs)
        envs0 == Len(m.envs)
        H1 == env_define(m.envs, m.environment, f.node.name, NilV)
        H2 == H1 \o [j \in 1..Len(ms) |-> new_child(m.environment)]
        methods == [nm \in {ms[j].name : j \in 1..Len(ms)} |->
                       FunV(funs0 + Max({j \in 1..Len(ms) : ms[j].name = nm}))]
        a == env_assign(H2, m.environment, f.node.name, ClassV(Len(m.classes) + 1))
    IN  Finish([m EXCEPT
                   !.envs = a.envs,
                   !.funs = @ \o [j \in 1..Len(ms) |->
                                     new_function(ms[j].name, ms[j], envs0 + j)],
                   !.classes = Append(@, new_class(f.node.name, methods))],
               IF a.res.kind = "err" THEN a.res ELSE Ok(NilV))

\* accept on Expr::Empty / Stmt::Empty (ast_macro.rs 51-53)
visit_empty(m) == Panic(m)

(***************************************************************************)
(* Expressions.                                                            *)
(***************************************************************************)
\* visit_binary (interpreter.rs 110-140); division is defined here where
\* the quotient is an integer
binary_op(op, l, r) ==
    IF l.k = "Number" /\ r.k = "Number"
    THEN CASE op = "Minus" -> NumV(l.n - r.n)
           [] op = "Slash" /\ r.n # 0 /\ l.n % r.n = 0 -> NumV(l.n \div r.n)
           [] op = "Star" -> NumV(l.n * r.n)
           [] op = "Plus" -> NumV(l.n + r.n)
           [] op = "Greater" -> BoolV(l.n > r.n)
           [] op = "GreaterEqual" -> BoolV(l.n >= r.n)
           [] op = "Less" -> BoolV(l.n < r.n)
           [] op = "LessEqual" -> BoolV(l.n <= r.n)
           [] op = "BangEqual" -> BoolV(l.n # r.n)
           [] op = "EqualEqual" -> BoolV(l.n = r.n)
           [] op \notin {"Slash"} -> NilV
    ELSE IF l.k = "Bool" /\ r.k = "Bool"
    THEN CASE op = "Greater" -> BoolV(l.n > r.n)
           [] op = "GreaterEqual" -> BoolV(l.n >= r.n)
           [] op = "Less" -> BoolV(l.n < r.n)
           [] op = "LessEqual" -> BoolV(l.n <= r.n)
           [] op = "BangEqual" -> BoolV(l.n # r.n)
           [] op = "EqualEqual" -> BoolV(l.n = r.n)
           [] OTHER -> NilV
    ELSE NilV

visit_binary(m) ==
    LET f == Top(m)
    IN  IF f.pc = 0 THEN Enter(m, [f EXCEPT !.pc = 1], f.node.left)
        ELSE IF Failed(m) THEN Finish(m, m.ret)
        ELSE IF f.pc = 1
             THEN Enter(m, [f EXCEPT !.pc = 2, !.vals = <<m.ret.v>>], f.node.right)
             ELSE Finish(m, Ok(binary_op(f.node.op, f.vals[1], m.ret.v)))

\* visit_unary (interpreter.rs 143-159)
unary_op(op, r) ==
    CASE op = "Minus" /\ r.k = "Bool" -> BoolV(r.n = 0)
      [] op = "Minus" /\ r.k = "Number" -> NumV(0 - r.n)
      [] op = "Bang" /\ r.k = "Bool" -> r
      [] op = "Bang" /\ r.k = "Number" -> BoolV(TRUE)
      [] OTHER -> NilV

visit_unary(m) ==
    LET f == Top(m)
    IN  IF f.pc = 0 THEN Enter(m, [f EXCEPT !.pc = 1], f.node.right)
        ELSE IF Failed(m) THEN Finish(m, m.ret)
        ELSE Finish(m, Ok(unary_op(f.node.op, m.ret.v)))

\* a logical operator that would evaluate both operands before it chooses
visit_logical_eager(m) ==
    LET f == Top(m)
    IN  IF f.pc = 0 THEN Enter(m, [f EXCEPT !.pc = 1], f.node.left)
        ELSE IF Failed(m) THEN Finish(m, m.ret)
        ELSE IF f.pc = 1
             THEN Enter(m, [f EXCEPT !.pc = 2, !.vals = <<m.ret.v>>], f.node.right)
        ELSE IF f.node.op = "Or"
             THEN Finish(m, IF is_truthy(f.vals[1]) THEN Ok(f.vals[1]) ELSE m.ret)
        ELSE IF f.node.op = "And"
             THEN Finish(m, IF ~is_truthy(f.vals[1]) THEN Ok(f.vals[1]) ELSE m.ret)
        ELSE Finish(m, Err("InvalidLogicalOperation"))

\* visit_logical (interpreter.rs 161-183)
visit_logical(m) ==
    LET f == Top(m)
    IN  IF f.pc = 0 THEN Enter(m, [f EXCEPT !.pc = 1], f.node.left)
        ELSE IF f.pc = 2 \/ Failed(m) THEN Finish(m, m.ret)
        ELSE IF f.node.op = "Or"
             THEN IF is_truthy(m.ret.v) THEN Finish(m, m.ret)
                  ELSE Enter(m, [f EXCEPT !.pc = 2], f.node.right)
        ELSE IF f.node.op = "And"
             THEN IF ~is_truthy(m.ret.v) THEN Finish(m, m.ret)
                  ELSE Enter(m, [f EXCEPT !.pc = 2], f.node.right)
        ELSE Finish(m, Err("InvalidLogicalOperation"))

\* visit_literal (interpreter.rs 185-187)
visit_literal(m) == Finish(m, Ok(Top(m).node.lit))

\* visit_grouping (interpreter.rs 189-191)
visit_grouping(m) ==
    LET f == Top(m)
    IN  IF f.pc = 0 THEN Enter(m, [f EXCEPT !.pc = 1], f.node.expr)
        ELSE Finish(m, m.ret)

\* what the debug print of get_at puts on stdout
DebugLine == [k |-> "Debug", n |-> 0]

\* Environment::get_at (environment.rs 62-71): the machine states it can
\* leave, one per outcome of the formatting
get_at(m, env, distance, nm) ==
    {IF o.panic THEN Panic(m)
     ELSE LET a == ancestor(o.envs, env, distance)
          IN  IF a = 0 THEN Panic(m)
              ELSE IF nm \notin DOMAIN o.envs[a].values THEN Panic(m)
              ELSE Finish([m EXCEPT !.envs = o.envs,
                                    !.output = Append(@, DebugLine)],
                          Ok(o.envs[a].values[nm])) :
        o \in fmt_refcell(m, env)}

\* look_up_variable (interpreter.rs 90-102)
look_up_variable(m, nm, expr) ==
    IF expr \in DOMAIN m.locals
    THEN get_at(m, m.environment, m.locals[expr], nm)
    ELSE {Finish(m, env_get(m.envs, m.globals, nm))}

\* visit_variable (interpreter.rs 193-195)
visit_variable(m) == look_up_variable(m, Top(m).node.name, Top(m).node)

\* visit_this (interpreter.rs 296-298)
visit_this(m) == look_up_variable(m, Top(m).node.name, Top(m).node)

\* Environment::assign_at (environment.rs 92-97)
assign_at(m, env, distance, nm, v) ==
    LET a == ancestor(m.envs, env, distance)
    IN  IF a = 0 THEN Panic(m)
        ELSE Finish([m EXCEPT !.envs = env_define(@, a, nm, v)], Ok(v))

\* visit_assign (interpreter.rs 197-214)
visit_assign(m) ==
    LET f == Top(m)
    IN  IF f.pc = 0 THEN Enter(m, [f EXCEPT !.pc = 1], f.node.value)
        ELSE IF Failed(m) THEN Finish(m, m.ret)
        ELSE IF f.node \in DOMAIN m.locals
             THEN assign_at(m, m.environment, m.locals[f.node], f.node.name, m.ret.v)
             ELSE LET a == env_assign(m.envs, m.environment, f.node.name, m.ret.v)
                  IN  IF a.res.kind = "err" THEN Finish(m, a.res)
                      ELSE Finish([m EXCEPT !.envs = a.envs], Ok(m.ret.v))

\* RatexFunction::arity, ClockFunction::arity (functions.rs 66-73, 117-119)
arity(fn) == IF fn.native THEN 0 ELSE Len(fn.declaration.params)

\* the parameter loop of RatexFunction::call (functions.rs 50-55)
bind_params(H, closure, params, arguments) ==
    [H EXCEPT ![closure].values =
        [x \in (DOMAIN @) \cup {params[j] : j \in 1..Len(params)} |->
            IF \E j \in 1..Len(params) : params[j] = x
            THEN arguments[Max({j \in 1..Len(params) : params[j] = x})]
            ELSE @[x]]]

\* a call that would hang the closure under the caller's current environment
\* before it runs the body
call_function_reparenting(m, f, fn, arguments) ==
    EnterFrame([m EXCEPT !.envs = [bind_params(@, fn.closure, fn.declaration.params,
                                               arguments)
                                      EXCEPT ![fn.closure].enclosing = m.environment]],
               [f EXCEPT !.pc = 2],
               BlockFrame(fn.declaration.body, fn.closure))

\* RatexFunction::call (functions.rs 43-64) up to its call of execute_block
call_function(m, f, fn, arguments) ==
    EnterFrame([m EXCEPT !.envs = bind_params(@, fn.closure, fn.declaration.params,
                                              arguments)],
               [f EXCEPT !.pc = 2],
               BlockFrame(fn.declaration.body, fn.closure))

\* RatexClass::call, RatexInstance::new (class.rs 31-34, 52-57)
call_class(m, cid) ==
    Finish([m EXCEPT !.insts = Append(@, [klass |-> cid, fields |-> EmptyMap])],
           Ok(InstV(Len(m.insts) + 1)))

\* a dispatch that would bind the parameters it has arguments for before
\* it compares the argument count with the arity
call_dispatch_binding_first(m, f, callee, arguments, now) ==
    IF callee.k = "Function"
    THEN LET fn == m.funs[callee.n]
         IN  IF Len(arguments) = arity(fn)
             THEN IF fn.native THEN Finish(m, Ok(NumV(now)))
                  ELSE call_function(m, f, fn, arguments)
             ELSE IF fn.native THEN Finish(m, Err("IncompatibleArity"))
             ELSE LET k == IF Len(arguments) < arity(fn) THEN Len(arguments)
                           ELSE arity(fn)
                  IN  Finish([m EXCEPT !.envs =
                                 bind_params(@, fn.closure,
                                             SubSeq(fn.declaration.params, 1, k),
                                             arguments)],
                             Err("IncompatibleArity"))
    ELSE IF callee.k = "Class" THEN call_class(m, callee.n)
    ELSE Finish(m, Err("InvalidFunctionCall"))

\* the match of visit_call (interpreter.rs 225-250); now is what the clock
\* builtin reads
call_dispatch(m, f, callee, arguments, now) ==
    IF callee.k = "Function"
    THEN LET fn == m.funs[callee.n]
         IN  IF Len(arguments) = arity(fn)
             THEN IF fn.native THEN Finish(m, Ok(NumV(now)))
                  ELSE call_function(m, f, fn, arguments)
             ELSE Finish(m, Err("IncompatibleArity"))
    ELSE IF callee.k = "Class" THEN call_class(m, callee.n)
    ELSE Finish(m, Err("InvalidFunctionCall"))

\* a call that would hand the Return signal of the body on to its own caller
visit_call_return_escapes(m, now) ==
    LET f == Top(m)
    IN  IF f.pc = 0 THEN Enter(m, [f EXCEPT !.pc = 1], f.node.callee)
        ELSE IF f.pc = 1
        THEN IF Failed(m) THEN Finish(m, m.ret)
             ELSE LET vals == Append(f.vals, m.ret.v)
                  IN  IF Len(vals) <= Len(f.node.arguments)
                      THEN Enter(m, [f EXCEPT !.vals = vals],
                                 f.node.arguments[Len(vals)])
                      ELSE call_dispatch(m, [f EXCEPT !.vals = vals],
                                         Head(vals), Tail(vals), now)
        ELSE IF Failed(m) THEN Finish(m, m.ret)
        ELSE Finish(m, Ok(NilV))

\* visit_call (interpreter.rs 216-251)
visit_call(m, now) ==
    LET f == Top(m)
    IN  IF f.pc = 0 THEN Enter(m, [f EXCEPT !.pc = 1], f.node.callee)
        ELSE IF f.pc = 1
        THEN IF Failed(m) THEN Finish(m, m.ret)
             ELSE LET vals == Append(f.vals, m.ret.v)
                  IN  IF Len(vals) <= Len(f.node.arguments)
                      THEN Enter(m, [f EXCEPT !.vals = vals],
                                 f.node.arguments[Len(vals)])
                      ELSE call_dispatch(m, [f EXCEPT !.vals = vals],
                                         Head(vals), Tail(vals), now)
        ELSE IF Failed(m) /\ m.ret.e = "Return" THEN Finish(m, Ok(m.ret.v))
        ELSE IF Failed(m) THEN Finish(m, m.ret)
        ELSE Finish(m, Ok(NilV))

\* visit_lambda (interpreter.rs 253-267); RatexToken::default() has the
\* empty lexeme
visit_lambda(m) ==
    LET f == Top(m)
    IN  Finish([m EXCEPT !.funs = Append(@,
                   new_function("anonymous", Fun("", f.node.params, f.node.body),
                                m.environment))],
               Ok(FunV(Len(m.funs) + 1)))

\* a get that would look in the class's method table before the fields
instance_get_methods_first(m, i, nm) ==
    IF nm \in DOMAIN m.classes[m.insts[i].klass].methods
    THEN Ok(m.classes[m.insts[i].klass].methods[nm])
    ELSE IF nm \in DOMAIN m.insts[i].fields THEN Ok(m.insts[i].fields[nm])
         ELSE ErrName("AccessUnknownField", nm)

\* RatexInstance::get with RatexClass::find_method (class.rs 63-75, 21-28)
instance_get(m, i, nm) ==
    IF nm \in DOMAIN m.insts[i].fields THEN Ok(m.insts[i].fields[nm])
    ELSE IF nm \in DOMAIN m.classes[m.insts[i].klass].methods
         THEN Ok(m.classes[m.insts[i].klass].methods[nm])
         ELSE ErrName("AccessUnknownField", nm)

\* visit_get (interpreter.rs 269-278)
visit_get(m) ==
    LET f == Top(m)
    IN  IF f.pc = 0 THEN Enter(m, [f EXCEPT !.pc = 1], f.node.object)
        ELSE IF Failed(m) THEN Finish(m, m.ret)
        ELSE IF m.ret.v.k = "Instance"
             THEN Finish(m, instance_get(m, m.ret.v.n, f.node.name))
             ELSE Finish(m, Err("InvalidFunctionCall"))

\* a set that would write the field into every instance of the same class,
\* as if the field map belonged to the class
instance_set_shared(insts, i, nm, v) ==
    [j \in 1..Len(insts) |->
        IF insts[j].klass = insts[i].klass
        THEN [insts[j] EXCEPT !.fields = Put(@, nm, v)]
        ELSE insts[j]]

\* RatexInstance::set (class.rs 77-79)
instance_set(insts, i, nm, v) == [insts EXCEPT ![i].fields = Put(@, nm, v)]

\* a set that would evaluate the value before it looks at the target
visit_set_value_first(m) ==
    LET f == Top(m)
    IN  IF f.pc = 0 THEN Enter(m, [f EXCEPT !.pc = 1], f.node.object)
        ELSE IF Failed(m) THEN Finish(m, m.ret)
        ELSE IF f.pc = 1
             THEN Enter(m, [f EXCEPT !.pc = 2, !.vals = <<m.ret.v>>], f.node.value)
             ELSE IF f.vals[1].k = "Instance"
                  THEN Finish([m EXCEPT !.insts = instance_set(@, f.vals[1].n,
                                                               f.node.name, m.ret.v)],
                              Ok(m.ret.v))
                  ELSE Finish(m, Err("NonInstanceSet"))

\* visit_set (interpreter.rs 280-294)
visit_set(m) ==
    LET f == Top(m)
    IN  IF f.pc = 0 THEN Enter(m, [f EXCEPT !.pc = 1], f.node.object)
        ELSE IF Failed(m) THEN Finish(m, m.ret)
        ELSE IF f.pc = 1
             THEN IF m.ret.v.k = "Instance"
                  THEN Enter(m, [f EXCEPT !.pc = 2, !.vals = <<m.ret.v>>], f.node.value)
                  ELSE Finish(m, Err("NonInstanceSet"))
             ELSE Finish([m EXCEPT !.insts = instance_set(@, f.vals[1].n,
                                                          f.node.name, m.ret.v)],
                         Ok(m.ret.v))

(***************************************************************************)
(* Programs.  The inputs of the model are statement lists handed to        *)
(* Resolver::resolve_list and RatexInterpreter::interpret.  They include   *)
(* the node kinds Break and This, which this revision's front end does not *)
(* build from text (scanner.rs has no "break" keyword, so `break;` reaches *)
(* the interpreter as the expression statement of an identifier; the       *)
(* parser's primary() has no arm for `this`).  All tokens are on line 1,   *)
(* as in the one-line examples of the documentation.                       *)
(***************************************************************************)
V(nm) == Variable(nm, 1)
N(x) == Literal(NumV(x))

\* var a = 1; { var a = 2; print a; } print a;
ProgShadow ==
    <<Var("a", N(1)), Block(<<Var("a", N(2)), PrintS(V("a"))>>), PrintS(V("a"))>>

\* fun f() {} followed by the same statements
ProgShadowFun == <<Fun("f", <<>>, <<>>)>> \o ProgShadow

\* fun counter(){ var i=0; fun inc(){ i=i+1; return i; } return inc; }
CounterDecl ==
    Fun("counter", <<>>,
        <<Var("i", N(0)),
          Fun("inc", <<>>,
              <<Expression(Assign("i", 1, Binary(V("i"), "Plus", N(1)))),
                Return(V("i"))>>),
          Return(V("inc"))>>)

\* ... var c=counter(); print c(); print c();
ProgCounter ==
    <<CounterDecl, Var("c", Call(V("counter"), <<>>)),
      PrintS(Call(V("c"), <<>>)), PrintS(Call(V("c"), <<>>))>>

\* ... var c1=counter(); var c2=counter(); print c1(); print c1(); print c2();
ProgTwoCounters ==
    <<CounterDecl, Var("c1", Call(V("counter"), <<>>)),
      Var("c2", Call(V("counter"), <<>>)),
      PrintS(Call(V("c1"), <<>>)), PrintS(Call(V("c1"), <<>>)),
      PrintS(Call(V("c2"), <<>>))>>

\* var i = 0; while (i < 2) { while (true) { <inner> } print i; i = i + 1; }
NestedLoops(inner) ==
    <<Var("i", N(0)),
      While(Binary(V("i"), "Less", N(2)),
            Block(<<While(Literal(BoolV(TRUE)), Block(<<inner>>)),
                    PrintS(V("i")),
                    Expression(Assign("i", 1, Binary(V("i"), "Plus", N(1))))>>))>>

\* the inner statement is a Break node
ProgBreak == NestedLoops(Break)

\* the inner statement is what the front end builds from `break;`
ProgBreakIdent == NestedLoops(Expression(V("break")))

\* class Point { getX(){ return this.x; } } var p = Point(); p.x = 5;
\* print p.getX();
ProgPoint ==
    <<Class("Point", <<Fun("getX", <<>>, <<Return(Get(This(1), "x"))>>)>>),
      Var("p", Call(V("Point"), <<>>)),
      Expression(Set(V("p"), "x", N(5))),
      PrintS(Call(Get(V("p"), "getX"), <<>>))>>

\* class Point {} var a = Point(); var b = Point(); a.x = 1; print a.x;
\* b.x = 2; print a.x; print b.x; print b.y;
ProgInstances ==
    <<Class("Point", <<>>),
      Var("a", Call(V("Point"), <<>>)), Var("b", Call(V("Point"), <<>>)),
      Expression(Set(V("a"), "x", N(1))), PrintS(Get(V("a"), "x")),
      Expression(Set(V("b"), "x", N(2))), PrintS(Get(V("a"), "x")),
      PrintS(Get(V("b"), "x")), PrintS(Get(V("b"), "y"))>>

\* fun f(a, b) { print a; } f(<arguments>); print 9;
ArityProgram(arguments) ==
    <<Fun("f", <<"a", "b">>, <<PrintS(V("a"))>>),
      Expression(Call(V("f"), arguments)), PrintS(N(9))>>

ProgArity1 == ArityProgram(<<N(1)>>)
ProgArity3 == ArityProgram(<<N(1), N(2), N(3)>>)

\* fun f(n) { if (n > 0) { f(n - 1); } print n; } f(1);
ProgRecursion ==
    <<Fun("f", <<"n">>,
          <<If(Binary(V("n"), "Greater", N(0)),
               Block(<<Expression(Call(V("f"), <<Binary(V("n"), "Minus", N(1))>>))>>),
               EmptyNode),
            PrintS(V("n"))>>),
      Expression(Call(V("f"), <<N(1)>>))>>

\* fun f(a) {} f(1); f(2);
ProgBind ==
    <<Fun("f", <<"a">>, <<>>),
      Expression(Call(V("f"), <<N(1)>>)), Expression(Call(V("f"), <<N(2)>>))>>

\* fun f() { { return 1; } } var x = f(); print x;
ProgReturn ==
    <<Fun("f", <<>>, <<Block(<<Return(N(1))>>)>>),
      Var("x", Call(V("f"), <<>>)), PrintS(V("x"))>>

\* var a = 1; { var a = 2; { print a; } print a; }
ProgCollision ==
    <<Var("a", N(1)),
      Block(<<Var("a", N(2)), Block(<<PrintS(V("a"))>>), PrintS(V("a"))>>)>>

\* var a = 1; { var b = 2; a = 3; b = a; print b; print c; } print a;
ProgError ==
    <<Var("a", N(1)),
      Block(<<Var("b", N(2)), Expression(Assign("a", 1, N(3))),
              Expression(Assign("b", 1, V("a"))), PrintS(V("b")), PrintS(V("c"))>>),
      PrintS(V("a"))>>

\* print -(1 + 2); if (!true or false) print 1; else print 2;
\* var t = clock(); var g = fun (n) { print n; }; g(4); 1.x = 2;
ProgOperators ==
    <<PrintS(Unary("Minus", Grouping(Binary(N(1), "Plus", N(2))))),
      If(Logical(Unary("Bang", Literal(BoolV(TRUE))), "Or", Literal(BoolV(FALSE))),
         PrintS(N(1)), PrintS(N(2))),
      Var("t", Call(V("clock"), <<>>)),
      Var("g", Lambda(<<"n">>, <<PrintS(V("n"))>>)),
      Expression(Call(V("g"), <<N(4)>>)),
      Expression(Set(N(1), "x", N(2)))>>

\* fun h() { return; } h();
ProgReturnEmpty ==
    <<Fun("h", <<>>, <<Return(EmptyNode)>>), Expression(Call(V("h"), <<>>))>>

\* { var a = 1; var a = 2; } print 1;
ProgRedeclare ==
    <<Block(<<Var("a", N(1)), Var("a", N(2))>>), PrintS(N(1))>>

\* while (true) { }   (a new block environment on every turn, for ever)
ProgForever == <<While(Literal(BoolV(TRUE)), Block(<<>>))>>

\* fun r() { r(); } r();   (recursion without end)
ProgRecurseForever ==
    <<Fun("r", <<>>, <<Expression(Call(V("r"), <<>>))>>),
      Expression(Call(V("r"), <<>>))>>

\* print 1; break; print 2;   (a Break node between two top-level statements)
ProgTopBreak == <<PrintS(N(1)), Break, PrintS(N(2))>>

\* var a = 1; fun f() { var a = 2; return 0; } f(); a = 3; print a;
\* print a.x;
ProgStaleAssign ==
    <<Var("a", N(1)),
      Fun("f", <<>>, <<Var("a", N(2)), Return(N(0))>>),
      Expression(Call(V("f"), <<>>)),
      Expression(Assign("a", 1, N(3))),
      PrintS(V("a")),
      PrintS(Get(V("a"), "x"))>>

\* class Point { m() {} } var p = Point(1); print p.m; p.m = 7; print p.m;
\* print p.zz;
ProgClassMembers ==
    <<Class("Point", <<Fun("m", <<>>, <<>>)>>),
      Var("p", Call(V("Point"), <<N(1)>>)),
      PrintS(Get(V("p"), "m")),
      Expression(Set(V("p"), "m", N(7))),
      PrintS(Get(V("p"), "m")),
      PrintS(Get(V("p"), "zz"))>>

\* var a = 0; print 1 or (a = 1); print nil and (a = 2); print nil or (a = 3);
\* print 1 and (a = 4); print a;
ProgLogical ==
    <<Var("a", N(0)),
      PrintS(Logical(N(1), "Or", Grouping(Assign("a", 1, N(1))))),
      PrintS(Logical(Literal(NilV), "And", Grouping(Assign("a", 1, N(2))))),
      PrintS(Logical(Literal(NilV), "Or", Grouping(Assign("a", 1, N(3))))),
      PrintS(Logical(N(1), "And", Grouping(Assign("a", 1, N(4))))),
      PrintS(V("a"))>>

\* { var a = 1; { print a; } } { var a = 2; print a; }   (on one line)
ProgTwoBlocks ==
    <<Block(<<Var("a", N(1)), Block(<<PrintS(V("a"))>>)>>),
      Block(<<Var("a", N(2)), PrintS(V("a"))>>)>>

\* fun f() { fun g() { return 1; } return 2; } return 3; print 4;
ProgReturns ==
    <<Fun("f", <<>>, <<Fun("g", <<>>, <<Return(N(1))>>), Return(N(2))>>),
      Return(N(3)),
      PrintS(N(4))>>

\* { var g = fun (n) { print n; }; g(5); }
ProgLambdaInBlock ==
    <<Block(<<Var("g", Lambda(<<"n">>, <<PrintS(V("n"))>>)),
              Expression(Call(V("g"), <<N(5)>>))>>)>>

Programs ==
    <<ProgShadow, ProgShadowFun, ProgCounter, ProgTwoCounters, ProgBreak,
      ProgBreakIdent, ProgPoint, ProgInstances, ProgArity1, ProgArity3,
      ProgRecursion, ProgBind, ProgReturn, ProgCollision, ProgError,
      ProgOperators, ProgReturnEmpty, ProgRedeclare, ProgForever,
      ProgRecurseForever, ProgTopBreak, ProgStaleAssign, ProgClassMembers,
      ProgLogical, ProgTwoBlocks, ProgReturns, ProgLambdaInBlock>>

\* what SystemTime::now() can give the clock builtin
ClockTimes == {100, 101}

(***************************************************************************)
(* The state machine: main.rs::run after parsing.                          *)
(***************************************************************************)
VARIABLES
    program,      \* index in Programs of the statement list being run
    resolver,     \* the Resolver: scopes, current_function, err
    ridx,         \* statements of the list resolve_list has consumed
    envs,         \* heap of Environment objects
    funs,         \* heap of callables
    classes,      \* the RatexClass values
    insts,        \* heap of RatexInstance objects
    environment,  \* RatexInterpreter.environment
    globals,      \* RatexInterpreter.globals
    locals,       \* RatexInterpreter.locals
    stack,        \* active calls of the evaluator
    ret,          \* Result handed back by the call that finished last
    status,       \* "resolving", "running", "done", "error", "panic", "exhausted"
    output        \* lines written to stdout

vars ==
    <<program, resolver, ridx, envs, funs, classes, insts, environment,
      globals, locals, stack, ret, status, output>>

\* the runtime state as the record the handlers work on
M ==
    [envs |-> envs, funs |-> funs, classes |-> classes, insts |-> insts,
     environment |-> environment, globals |-> globals, locals |-> locals,
     stack |-> stack, ret |-> ret, status |-> status, output |-> output]

\* Resolver::new (resolver.rs 33-39)
NewResolver == [scopes |-> <<>>, current_function |-> "None", err |-> NoErr]

\* ClockFunction::new (functions.rs 126-130)
ClockFn == [name |-> "clock", declaration |-> EmptyNode, closure |-> 0, native |-> TRUE]

\* RatexInterpreter::new (interpreter.rs 74-88)
Init ==
    /\ program \in 1..Len(Programs)
    /\ resolver = NewResolver
    /\ ridx = 0
    /\ envs = <<[values |-> Put(EmptyMap, "clock", FunV(1)), enclosing |-> 0]>>
    /\ funs = <<ClockFn>>
    /\ classes = <<>>
    /\ insts = <<>>
    /\ environment = 1
    /\ globals = 1
    /\ locals = EmptyMap
    /\ stack = <<>>
    /\ ret = NoRet
    /\ status = "resolving"
    /\ output = <<>>

\* one turn of the loop of resolve_list on the whole program
\* (resolver.rs 41-46, called at main.rs 121)
ResolveStep ==
    /\ status = "resolving"
    /\ ridx < Len(Programs[program])
    /\ resolver.err = NoErr
    /\ LET rs == resolve_stmt([scopes |-> resolver.scopes,
                               current_function |-> resolver.current_function,
                               locals |-> locals, err |-> resolver.err],
                              Programs[program][ridx + 1])
       IN  /\ resolver' = [scopes |-> rs.scopes,
                           current_function |-> rs.current_function,
                           err |-> rs.err]
           /\ locals' = rs.locals
    /\ ridx' = ridx + 1
    /\ UNCHANGED <<program, envs, funs, classes, insts, environment, globals,
                   stack, ret, status, output>>

\* main.rs 121-123: the Result of resolve_list is dropped and interpret is
\* called on the same statements
StartInterpret ==
    /\ status = "resolving"
    /\ ridx = Len(Programs[program]) \/ resolver.err # NoErr
    /\ status' = "running"
    /\ stack' = <<NewFrame([t |-> "interpret", statements |-> Programs[program]])>>
    /\ UNCHANGED <<program, resolver, ridx, envs, funs, classes, insts,
                   environment, globals, locals, ret, output>>

\* the step of a handler; a run that outgrows the bounds of the model is
\* abandoned
Apply(m) ==
    IF Len(m.envs) > MaxEnvs \/ Len(m.stack) > MaxStack
    THEN /\ status' = "exhausted"
         /\ UNCHANGED <<program, resolver, ridx, envs, funs, classes, insts,
                        environment, globals, locals, stack, ret, output>>
    ELSE /\ envs' = m.envs
         /\ funs' = m.funs
         /\ classes' = m.classes
         /\ insts' = m.insts
         /\ environment' = m.environment
         /\ globals' = m.globals
         /\ locals' = m.locals
         /\ stack' = m.stack
         /\ ret' = m.ret
         /\ status' = m.status
         /\ output' = m.output
         /\ UNCHANGED <<program, resolver, ridx>>

\* the handler `accept` dispatches to (ast_macro.rs 48-60)
Running(t) == status = "running" /\ stack # <<>> /\ Top(M).node.t = t

Interpret == Running("interpret") /\ Apply(interpret(M))
ExecuteBlock == Running("execute_block") /\ Apply(execute_block(M))
VisitBlock == Running("Block") /\ Apply(visit_block(M))
VisitExpression == Running("Expression") /\ Apply(visit_expression(M))
VisitIf == Running("If") /\ Apply(visit_if(M))
VisitFun == Running("Fun") /\ Apply(visit_fun(M))
VisitWhile == Running("While") /\ Apply(visit_while(M))
VisitBreak == Running("Break") /\ Apply(visit_break(M))
VisitPrint == Running("Print") /\ Apply(visit_print(M))
VisitReturn == Running("Return") /\ Apply(visit_return(M))
VisitVar == Running("Var") /\ Apply(visit_var(M))
VisitClass == Running("Class") /\ Apply(visit_class(M))
VisitEmpty == Running("Empty") /\ Apply(visit_empty(M))
VisitBinary == Running("Binary") /\ Apply(visit_binary(M))
VisitUnary == Running("Unary") /\ Apply(visit_unary(M))
VisitLogical == Running("Logical") /\ Apply(visit_logical(M))
VisitLiteral == Running("Literal") /\ Apply(visit_literal(M))
VisitGrouping == Running("Grouping") /\ Apply(visit_grouping(M))
VisitVariable == Running("Variable") /\ \E m \in visit_variable(M) : Apply(m)
VisitThis == Running("This") /\ \E m \in visit_this(M) : Apply(m)
VisitAssign == Running("Assign") /\ Apply(visit_assign(M))
VisitCall == Running("Call") /\ \E now \in ClockTimes : Apply(visit_call(M, now))
VisitLambda == Running("Lambda") /\ Apply(visit_lambda(M))
VisitGet == Running("Get") /\ Apply(visit_get(M))
VisitSet == Running("Set") /\ Apply(visit_set(M))

Next ==
    \/ ResolveStep
    \/ StartInterpret
    \/ Interpret
    \/ ExecuteBlock
    \/ VisitBlock
    \/ VisitExpression
    \/ VisitIf
    \/ VisitFun
    \/ VisitWhile
    \/ VisitBreak
    \/ VisitPrint
    \/ VisitReturn
    \/ VisitVar
    \/ VisitClass
    \/ VisitEmpty
    \/ VisitBinary
    \/ VisitUnary
    \/ VisitLogical
    \/ VisitLiteral
    \/ VisitGrouping
    \/ VisitVariable
    \/ VisitThis
    \/ VisitAssign
    \/ VisitCall
    \/ VisitLambda
    \/ VisitGet
    \/ VisitSet

Spec == Init /\ [][Next]_vars

\* the run is over
Terminated == status \in {"done", "error", "panic"}

\* the lines the print statements wrote
Printed == SelectSeq(output, LAMBDA v : v.k # "Debug")

ProgramIs(p) == Programs[program] = p

\* the handler on top of the stack is the one for nodes of kind t and is
\* about to return to its caller in this step
Returns(t) == Running(t) /\ Len(stack') < Len(stack)

(***************************************************************************)
(* The methods of Resolver, one call at a time.  A client holds a Resolver *)
(* and calls begin_scope, end_scope, declare, define, resolve_expr and     *)
(* resolve_stmt in any order, as the visitors do; after a call has         *)
(* returned an Err the resolver is not used again (every caller in         *)
(* resolver.rs leaves with `?`).  status is "resolver" in these states.    *)
(***************************************************************************)
UnitNames == {"a", "b"}

\* fun () { return 1; }
LambdaReturn == Lambda(<<>>, <<Return(N(1))>>)

UnitExprs == {V("a"), V("b"), Assign("a", 1, N(1)), LambdaReturn}

UnitStmts ==
    {Var("a", N(1)),
     Var("a", V("a")),
     Block(<<Var("a", N(1)), PrintS(V("a")), PrintS(V("b"))>>),
     Fun("b", <<"a", "a">>, <<>>),
     Fun("b", <<"a">>, <<Return(V("a"))>>),
     Fun("b", <<>>, <<Expression(LambdaReturn), Return(N(2))>>),
     Class("b", <<Fun("a", <<>>, <<Return(N(1))>>)>>),
     Return(N(1))}

UnitResolver ==
    [scopes |-> resolver.scopes, current_function |-> resolver.current_function,
     locals |-> locals, err |-> resolver.err]

\* the resolver after a call that left it as rs
Called(rs) ==
    /\ status = "resolver"
    /\ resolver.err = NoErr
    /\ resolver' = [scopes |-> rs.scopes, current_function |-> rs.current_function,
                    err |-> rs.err]
    /\ locals' = rs.locals
    /\ UNCHANGED <<program, ridx, envs, funs, classes, insts, environment,
                   globals, stack, ret, status, output>>

BeginScope == Len(resolver.scopes) < MaxScopes /\ Called(begin_scope(UnitResolver))
EndScope == resolver.scopes # <<>> /\ Called(end_scope(UnitResolver))
Declare(nm) == Called(declare(UnitResolver, nm))
Define(nm) == Called(define(UnitResolver, nm))
ResolveExpr(e) == Called(resolve_expr(UnitResolver, e))
ResolveStmt(s) == Called(resolve_stmt(UnitResolver, s))

(***************************************************************************)
(* The methods of Environment, one call at a time, on the environments     *)
(* made from the global one by new_child and define (status is             *)
(* "environment"); ret holds the Result of the last assign.                *)
(***************************************************************************)
UnitValues == {NumV(1), NumV(2)}

NewChild(e) ==
    /\ status = "environment"
    /\ Len(envs) < MaxUnitEnvs
    /\ envs' = Append(envs, new_child(e))
    /\ UNCHANGED <<program, resolver, ridx, funs, classes, insts, environment,
                   globals, locals, stack, ret, status, output>>

EnvDefine(e, nm, v) ==
    /\ status = "environment"
    /\ envs' = env_define(envs, e, nm, v)
    /\ UNCHANGED <<program, resolver, ridx, funs, classes, insts, environment,
                   globals, locals, stack, ret, status, output>>

EnvAssign(e, nm, v) ==
    /\ status = "environment"
    /\ envs' = env_assign(envs, e, nm, v).envs
    /\ ret' = env_assign(envs, e, nm, v).res
    /\ UNCHANGED <<program, resolver, ridx, funs, classes, insts, environment,
                   globals, locals, stack, status, output>>

(***************************************************************************)
(* RatexFunction::bind and RatexInstance::set, one call at a time, from    *)
(* the state after `class Point { m() {} }` and one call of Point (status  *)
(* is "bind").                                                             *)
(***************************************************************************)
GlobalsAtStart == [values |-> Put(EmptyMap, "clock", FunV(1)), enclosing |-> 0]

BindStart ==
    LET m0 == [envs |-> <<GlobalsAtStart>>, funs |-> <<ClockFn>>, classes |-> <<>>,
               insts |-> <<>>, environment |-> 1, globals |-> 1,
               locals |-> EmptyMap, ret |-> NoRet, status |-> "bind",
               output |-> <<>>,
               stack |-> <<NewFrame(EmptyNode),
                           NewFrame(Class("Point", <<Fun("m", <<>>, <<>>)>>))>>]
    IN  call_class(visit_class(m0), 1)

Bind(fn, i) ==
    /\ status = "bind"
    /\ Len(envs) < MaxUnitEnvs
    /\ envs' = bind(M, fn, insts[i]).envs
    /\ insts' = bind(M, fn, insts[i]).insts
    /\ funs' = bind(M, fn, insts[i]).funs
    /\ UNCHANGED <<program, resolver, ridx, classes, environment, globals,
                   locals, stack, ret, status, output>>

InstanceSet(i, nm, v) ==
    /\ status = "bind"
    /\ insts' = instance_set(insts, i, nm, v)
    /\ UNCHANGED <<program, resolver, ridx, envs, funs, classes, environment,
                   globals, locals, stack, ret, status, output>>

MethodsInit ==
    /\ status \in {"resolver", "environment", "bind"}
    /\ program = 1
    /\ resolver = NewResolver
    /\ ridx = 0
    /\ envs = IF status = "bind" THEN BindStart.envs ELSE <<GlobalsAtStart>>
    /\ funs = IF status = "bind" THEN BindStart.funs ELSE <<ClockFn>>
    /\ classes = IF status = "bind" THEN BindStart.classes ELSE <<>>
    /\ insts = IF status = "bind" THEN BindStart.insts ELSE <<>>
    /\ environment = 1
    /\ globals = 1
    /\ locals = EmptyMap
    /\ stack = <<>>
    /\ ret = NoRet
    /\ output = <<>>

MethodsNext ==
    \/ BeginScope
    \/ EndScope
    \/ \E nm \in UnitNames : Declare(nm)
    \/ \E nm \in UnitNames : Define(nm)
    \/ \E e \in UnitExprs : ResolveExpr(e)
    \/ \E s \in UnitStmts : ResolveStmt(s)
    \/ \E e \in 1..Len(envs) : NewChild(e)
    \/ \E e \in 1..Len(envs), v \in UnitValues : EnvDefine(e, "a", v)
    \/ \E e \in 1..Len(envs), nm \in UnitNames, v \in UnitValues : EnvAssign(e, nm, v)
    \/ \E fn \in 2..Len(funs), i \in 1..Len(insts) : Bind(fn, i)
    \/ \E i \in 1..Len(insts), v \in UnitValues : InstanceSet(i, "x", v)

SpecMethods == MethodsInit /\ [][MethodsNext]_vars

(***************************************************************************)
(* Properties.                                                             *)
(***************************************************************************)

\* C1: when the execute_block that a Block statement started returns, on any
\* path (end of the statement list, or an Err carrying Break, Return or a
\* runtime error), the interpreter's current environment is again the one
\* that was current when the block was entered.
C1_BlockRestoresEnvironment ==
    [][(/\ Returns("execute_block")
        /\ Len(stack) >= 2
        /\ stack[Len(stack) - 1].node.t = "Block"
        /\ Top(M).pc >= 1)
       => environment' = Top(M).old]_vars

\* C2: a Break signal raised in the body of a While loop is consumed by that
\* loop: visit_while never returns Err(Break) to its caller.
C2_BreakStopsAtInnermostWhile ==
    [][Returns("While") => ~(ret'.kind = "err" /\ ret'.e = "Break")]_vars

\* C3: the counter program (var c = counter(); print c(); print c();) ends
\* normally having printed 1 and then 2.
C3_CounterPrintsOneThenTwo ==
    (ProgramIs(ProgCounter) /\ Terminated)
        => (status = "done" /\ Printed = <<NumV(1), NumV(2)>>)

\* C4: with c1 = counter() and c2 = counter(), the calls c1(), c1(), c2()
\* yield 1, 2, 1: c2 counts on its own, whatever was done with c1.
C4_CountersAreIndependent ==
    (ProgramIs(ProgTwoCounters) /\ Terminated)
        => (status = "done" /\ Printed = <<NumV(1), NumV(2), NumV(1)>>)

\* C5: the step of a call that binds the parameters and enters the body of a
\* user function leaves every environment that existed before the call as it
\* was (the closure environment included): the parameters go to a fresh one.
C5_ParametersBoundInFreshEnvironment ==
    [][(/\ Running("Call")
        /\ Top(M).pc = 1
        /\ Len(stack') = Len(stack) + 1
        /\ stack'[Len(stack')].node.t = "execute_block")
       => \A e \in 1..Len(envs) : envs'[e] = envs[e]]_vars

\* an expression the resolver recorded a distance for is about to be looked
\* up (Variable, This) or assigned (Assign, its value computed)
ResolvedAccess ==
    /\ status = "running"
    /\ stack # <<>>
    /\ \/ Top(M).node.t \in {"Variable", "This"}
       \/ Top(M).node.t = "Assign" /\ Top(M).pc = 1 /\ ret.kind = "ok"
    /\ Top(M).node \in DOMAIN locals

\* C6: wherever an expression with a recorded distance d is evaluated, the
\* environment d links up from the current one exists, holds the name, and
\* holds the value the nearest-binding search get(name) gives.
C6_ResolverAgreesWithRuntime ==
    ResolvedAccess =>
        LET nm == Top(M).node.name
            a == ancestor(envs, environment, locals[Top(M).node])
        IN  /\ a # 0
            /\ nm \in DOMAIN envs[a].values
            /\ env_get(envs, environment, nm) = Ok(envs[a].values[nm])

\* C7: the Point program (p.x = 5; print p.getX(); with getX returning
\* this.x) ends normally having printed 5.
C7_ThisIsTheInstance ==
    (ProgramIs(ProgPoint) /\ Terminated)
        => (status = "done" /\ Printed = <<NumV(5)>>)

\* the instance a Set is about to write in this step (0: the step is no such
\* write)
SetTarget == IF Running("Set") /\ Top(M).pc = 2 THEN Top(M).vals[1].n ELSE 0

FieldNames == {"x", "y", "getX"}

\* C8: a step changes what Get yields on an instance only if it is a Set on
\* that very instance, and an instance a step creates has no fields.
C8_InstancesAreIndependent ==
    [][/\ \A i \in 1..Len(insts) : \A nm \in FieldNames :
              i # SetTarget =>
                  /\ i <= Len(insts')
                  /\ instance_get([insts |-> insts', classes |-> classes'], i, nm)
                         = instance_get(M, i, nm)
       /\ \A i \in (Len(insts) + 1)..Len(insts') : insts'[i].fields = EmptyMap]_vars

\* two instances of one class, the first read before and after the Set on the
\* second gave 1 both times, the second gives 2
C8_Witness ==
    /\ ProgramIs(ProgInstances)
    /\ Len(insts) = 2
    /\ insts[1].klass = insts[2].klass
    /\ insts[1].fields # insts[2].fields
    /\ Printed = <<NumV(1), NumV(1), NumV(2)>>

\* the callee and the arguments of the call on top of the stack, once the
\* last of them has been evaluated
CallValues == Append(Top(M).vals, ret.v)

\* visit_call is about to dispatch a call of a user function with a wrong
\* number of arguments
ArityMismatch ==
    /\ Running("Call")
    /\ Top(M).pc = 1
    /\ ret.kind = "ok"
    /\ Len(CallValues) = Len(Top(M).node.arguments) + 1
    /\ Head(CallValues).k = "Function"
    /\ ~funs[Head(CallValues).n].native
    /\ Len(Tail(CallValues)) # arity(funs[Head(CallValues).n])

\* C9: a call of a user function with a wrong number of arguments returns
\* Err(IncompatibleArity) at once: no frame for the body is started, nothing
\* is printed, and no environment, instance or callable changes.
C9_ArityMismatchHasNoEffect ==
    [][ArityMismatch =>
           /\ ret' = Err("IncompatibleArity")
           /\ stack' = Front(stack)
           /\ envs' = envs
           /\ environment' = environment
           /\ insts' = insts
           /\ funs' = funs
           /\ classes' = classes
           /\ output' = output]_vars

\* the one-argument call of the two-parameter function has failed, nothing
\* was printed and the closure holds no parameter
C9_Witness ==
    /\ ProgramIs(ProgArity1)
    /\ status = "error"
    /\ ret = Err("IncompatibleArity")
    /\ output = <<>>
    /\ DOMAIN envs[funs[2].closure].values = {}

\* C10: the shadowing program (var a = 1; { var a = 2; print a; } print a;),
\* with or without a function declared before it, ends normally having
\* printed 2 and then 1, and the outer a is still 1.
C10_BlockShadowing ==
    ((ProgramIs(ProgShadow) \/ ProgramIs(ProgShadowFun)) /\ Terminated)
        => /\ status = "done"
           /\ Printed = <<NumV(2), NumV(1)>>
           /\ envs[globals].values["a"] = NumV(1)

\* C11: interpret executes the top-level statements in list order; a
\* statement that ends with a Break signal is followed by the next
\* statement; a statement that ends with any other error ends the run with
\* that error at once, and no later statement is started.
C11_InterpretRunsInOrder ==
    [][Running("interpret") =>
        LET f == Top(M)
        IN  IF f.pc = 1 /\ ret.kind = "err" /\ ret.e # "Break"
            THEN /\ status' = "error"
                 /\ stack' = <<>>
                 /\ ret' = ret
                 /\ output' = output /\ envs' = envs /\ insts' = insts
            ELSE IF f.i < Len(Programs[program])
            THEN /\ status' = "running"
                 /\ Len(stack') = 2
                 /\ stack'[1].i = f.i + 1
                 /\ stack'[2] = NewFrame(Programs[program][f.i + 1])
                 /\ output' = output
            ELSE /\ status' = "done"
                 /\ stack' = <<>>]_vars

C11_Witness ==
    /\ ProgramIs(ProgTopBreak)
    /\ status = "done"
    /\ Printed = <<NumV(1), NumV(2)>>

\* C12: when the resolver pass over a program has failed, the interpreter
\* executes no statement of that program: no statement is ever started and
\* nothing is printed.
C12_ResolverErrorPreventsExecution ==
    resolver.err # NoErr =>
        /\ \A i \in 1..Len(stack) : stack[i].node.t = "interpret"
        /\ output = <<>>

\* C13: in a program accepted by the resolver, a Return signal travels up
\* through the statements of the function body without any further statement
\* being started or anything being printed, the innermost enclosing Call
\* turns it into its result value, and it never reaches interpret.
C13_ReturnCaughtAtInnermostCall ==
    [][(/\ status = "running"
        /\ stack # <<>>
        /\ ret.kind = "err"
        /\ ret.e = "Return"
        /\ resolver.err = NoErr) =>
            /\ Top(M).node.t # "interpret"
            /\ stack' = Front(stack)
            /\ output' = output
            /\ ret' = IF Top(M).node.t = "Call" THEN Ok(ret.v) ELSE ret]_vars

C13_Witness ==
    /\ ProgramIs(ProgReturn)
    /\ Running("Var")
    /\ Top(M).node.name = "x"
    /\ ret = Ok(NumV(1))

\* C14: a Variable or Assign expression with no entry in the distance table
\* works on the global environment only: the read gives the global binding
\* (UndefinedIdentifier when globals has none), the assignment changes the
\* global binding and leaves every non-global environment as it was.
C14_UnresolvedUsesGlobals ==
    [][(/\ status = "running"
        /\ stack # <<>>
        /\ Top(M).node.t \in {"Variable", "Assign"}
        /\ Top(M).node \notin DOMAIN locals) =>
            LET f == Top(M)
                nm == f.node.name
                G == envs[globals].values
            IN  /\ f.node.t = "Variable" =>
                       ret' = IF nm \in DOMAIN G THEN Ok(G[nm])
                              ELSE ErrName("UndefinedIdentifier", nm)
                /\ (f.node.t = "Assign" /\ f.pc = 1 /\ ret.kind = "ok") =>
                       /\ \A e \in 1..Len(envs) : e # globals => envs'[e] = envs[e]
                       /\ IF nm \in DOMAIN G
                          THEN /\ envs'[globals].values[nm] = ret.v
                               /\ ret' = Ok(ret.v)
                          ELSE /\ ret' = ErrName("UndefinedIdentifier", nm)
                               /\ envs' = envs]_vars

\* C15: the arity is checked for a class as for any callee: a Call of a
\* Class with one or more arguments fails with IncompatibleArity and creates
\* no Instance; with no arguments it yields a new Instance of that class.
C15_ClassArityChecked ==
    [][(/\ Running("Call")
        /\ Top(M).pc = 1
        /\ ret.kind = "ok"
        /\ Len(Top(M).vals) = Len(Top(M).node.arguments)
        /\ CallValues[1].k = "Class") =>
           IF Len(Top(M).node.arguments) = 0
           THEN /\ insts' = Append(insts, [klass |-> CallValues[1].n,
                                           fields |-> EmptyMap])
                /\ ret' = Ok(InstV(Len(insts) + 1))
           ELSE /\ insts' = insts
                /\ ret' = Err("IncompatibleArity")]_vars

\* C16: a Get whose target is not an Instance fails with InvalidFunctionCall
\* and a Set whose target is not an Instance fails with NonInstanceSet; the
\* Set does not evaluate its value expression, and neither changes an
\* environment, an instance, a callable or the output.
C16_NonInstanceAccessFails ==
    [][(/\ status = "running"
        /\ stack # <<>>
        /\ Top(M).node.t \in {"Get", "Set"}
        /\ Top(M).pc = 1
        /\ ret.kind = "ok"
        /\ ret.v.k # "Instance") =>
            /\ ret' = IF Top(M).node.t = "Get" THEN Err("InvalidFunctionCall")
                      ELSE Err("NonInstanceSet")
            /\ stack' = Front(stack)
            /\ envs' = envs
            /\ environment' = environment
            /\ insts' = insts
            /\ funs' = funs
            /\ classes' = classes
            /\ output' = output]_vars

\* 1.x = 2 has failed and the value 2 was never evaluated: the error is
\* what the Expression statement hands to interpret
C16_Witness ==
    /\ ProgramIs(ProgOperators)
    /\ status = "error"
    /\ ret = Err("NonInstanceSet")
    /\ insts = <<>>

\* C17: a Get on an instance gives the value of the instance's field of that
\* name when there is one, also when the class has a method of the same
\* name; otherwise the Function value of the class's method of that name;
\* otherwise it fails with AccessUnknownField.  No field map changes.
C17_GetFieldsBeforeMethods ==
    [][(/\ Running("Get")
        /\ Top(M).pc = 1
        /\ ret.kind = "ok"
        /\ ret.v.k = "Instance") =>
            LET nm == Top(M).node.name
                fields == insts[ret.v.n].fields
                methods == classes[insts[ret.v.n].klass].methods
            IN  /\ nm \in DOMAIN fields => ret' = Ok(fields[nm])
                /\ (nm \notin DOMAIN fields /\ nm \in DOMAIN methods) =>
                       (ret' = Ok(methods[nm]) /\ ret'.v.k = "Function")
                /\ (nm \notin DOMAIN fields /\ nm \notin DOMAIN methods) =>
                       ret' = ErrName("AccessUnknownField", nm)
                /\ insts' = insts
                /\ stack' = Front(stack)]_vars

\* p.m gave the method while p had no field m, the field's 7 after p.m = 7,
\* and p.zz has failed
C17_Witness ==
    /\ ProgramIs(ProgClassMembers)
    /\ status = "error"
    /\ Printed = <<FunV(2), NumV(7)>>
    /\ ret = ErrName("AccessUnknownField", "zz")
    /\ DOMAIN insts[1].fields = {"m"}

\* C18: once the left operand of a Logical has a value: for `or` with a
\* truthy left and for `and` with a falsy left the result is the left value
\* and the right operand is not started, so nothing else changes; otherwise
\* the right operand is started once, and what it gives is the result.
C18_LogicalShortCircuits ==
    [][(/\ Running("Logical")
        /\ Top(M).node.op \in {"Or", "And"}
        /\ Top(M).pc >= 1
        /\ ret.kind = "ok") =>
            LET f == Top(M)
                decided == IF f.node.op = "Or" THEN is_truthy(ret.v)
                           ELSE ~is_truthy(ret.v)
            IN  IF f.pc = 2 \/ decided
                THEN /\ ret' = ret
                     /\ stack' = Front(stack)
                     /\ envs' = envs
                     /\ insts' = insts
                     /\ output' = output
                ELSE /\ stack' = Append([stack EXCEPT ![Len(stack)].pc = 2],
                                        NewFrame(f.node.right))
                     /\ envs' = envs
                     /\ insts' = insts
                     /\ output' = output]_vars

\* of the four assignments on the right of a logical operator only a = 3 and
\* a = 4 have happened
C18_Witness ==
    /\ ProgramIs(ProgLogical)
    /\ status = "done"
    /\ Printed = <<NumV(1), NilV, NumV(3), NumV(4), NumV(4)>>
    /\ envs[globals].values["a"] = NumV(4)

\* C19: the distance recorded for a variable use is never overwritten or
\* changed when a later use is resolved, also when the later use has the
\* same name on the same line at another scope depth.
C19_DistancesKeyedByIdentity ==
    [][\A expr \in DOMAIN locals :
           expr \in DOMAIN locals' /\ locals'[expr] = locals[expr]]_vars

RECURSIVE ReturnOutsideFunction(_)
\* the statement is, or holds in its blocks, branches or loop bodies, a
\* return that is in no function or method body
ReturnOutsideFunction(s) ==
    CASE s.t = "Return" -> TRUE
      [] s.t = "Block" ->
            \E j \in 1..Len(s.statements) : ReturnOutsideFunction(s.statements[j])
      [] s.t = "If" ->
            ReturnOutsideFunction(s.then_stmt) \/ ReturnOutsideFunction(s.else_stmt)
      [] s.t = "While" -> ReturnOutsideFunction(s.body)
      [] OTHER -> FALSE

\* C20: resolving a top-level statement that is a return fails with
\* InvalidReturnLocation, whatever function declarations came before it, and
\* a statement holding a return outside every function is not accepted; a
\* function or class declaration never fails with InvalidReturnLocation for
\* the returns in its (nested) function bodies; after every accepted
\* statement the function-kind context is None again.
C20_ReturnNeedsFunction ==
    [][ridx' = ridx + 1 =>
           LET s == Programs[program][ridx + 1]
           IN  /\ s.t = "Return" => resolver'.err = "InvalidReturnLocation"
               /\ ReturnOutsideFunction(s) => resolver'.err # NoErr
               /\ s.t \in {"Fun", "Class"} =>
                      resolver'.err # "InvalidReturnLocation"
               /\ resolver'.err = NoErr =>
                      resolver'.current_function = "None"]_vars

\* fun f() { fun g() { return 1; } return 2; } was accepted and the
\* return 3; after it rejected
C20_Witness ==
    /\ ProgramIs(ProgReturns)
    /\ status = "resolving"
    /\ ridx = 2
    /\ resolver.err = "InvalidReturnLocation"

\* C21: declare of a name that the innermost scope already holds fails with
\* RedeclareLocalVariable and leaves every scope as it was, which is what
\* happens to a function with two parameters of one name; declare of any
\* other name succeeds, enters the name as not ready in the innermost scope
\* and leaves the other names and the outer scopes as they were.
C21_DeclareRejectsSameScope ==
    [][/\ \A nm \in UnitNames :
            (Declare(nm) /\ resolver.scopes # <<>>) =>
                LET top == Last(resolver.scopes)
                    top2 == Last(resolver'.scopes)
                IN  IF nm \in DOMAIN top
                    THEN /\ resolver'.err = "RedeclareLocalVariable"
                         /\ resolver'.scopes = resolver.scopes
                    ELSE /\ resolver'.err = NoErr
                         /\ Len(resolver'.scopes) = Len(resolver.scopes)
                         /\ Front(resolver'.scopes) = Front(resolver.scopes)
                         /\ DOMAIN top2 = DOMAIN top \cup {nm}
                         /\ top2[nm] = FALSE
                         /\ \A x \in DOMAIN top : top2[x] = top[x]
       /\ ResolveStmt(Fun("b", <<"a", "a">>, <<>>)) =>
              resolver'.err = "RedeclareLocalVariable"]_vars

\* a is declared in the inner scope while the outer scope holds a defined a
C21_Witness ==
    /\ status = "resolver"
    /\ Len(resolver.scopes) = 2
    /\ resolver.scopes[1] = Put(EmptyMap, "a", TRUE)
    /\ resolver.scopes[2] = Put(EmptyMap, "a", FALSE)

\* C22: resolving a read of a name that the innermost scope holds as declared
\* but not yet defined fails with VarInInitialiser; once the name is defined
\* the same read is accepted.
C22_ReadInOwnInitialiser ==
    [][\A nm \in UnitNames :
           (/\ ResolveExpr(V(nm))
            /\ resolver.scopes # <<>>
            /\ nm \in DOMAIN Last(resolver.scopes)) =>
                resolver'.err = IF Last(resolver.scopes)[nm] THEN NoErr
                                ELSE "VarInInitialiser"]_vars

\* C23: assign(name, value) on environment e overwrites the value in the
\* nearest environment of e's chain that holds the name and changes nothing
\* else; when no environment of the chain holds the name it fails with
\* UndefinedIdentifier and changes nothing.  No environment gains a name.
C23_AssignNeverCreates ==
    [][\A e \in 1..Len(envs), nm \in UnitNames, v \in UnitValues :
           EnvAssign(e, nm, v) =>
               LET holds(d) == /\ ancestor(envs, e, d) # 0
                               /\ nm \in DOMAIN envs[ancestor(envs, e, d)].values
                   holders == {d \in 0..Len(envs) : holds(d)}
                   nearest == ancestor(envs, e,
                                  CHOOSE d \in holders : \A d2 \in holders : d <= d2)
               IN  /\ Len(envs') = Len(envs)
                   /\ \A k \in 1..Len(envs) :
                          /\ DOMAIN envs'[k].values = DOMAIN envs[k].values
                          /\ envs'[k].enclosing = envs[k].enclosing
                   /\ IF holders = {}
                      THEN /\ envs' = envs
                           /\ ret' = ErrName("UndefinedIdentifier", nm)
                      ELSE /\ ret' = Ok(NilV)
                           /\ envs'[nearest].values[nm] = v
                           /\ \A k \in 1..Len(envs) :
                                  \A x \in DOMAIN envs[k].values :
                                      (k # nearest \/ x # nm) =>
                                          envs'[k].values[x] = envs[k].values[x]]_vars

\* an assign from a grandchild has reached the global a, and an assign of b
\* from there has failed
C23_Witness ==
    /\ status = "environment"
    /\ Len(envs) = 3
    /\ envs[3].enclosing = 2
    /\ envs[2].enclosing = 1
    /\ DOMAIN envs[2].values = {}
    /\ DOMAIN envs[3].values = {}
    /\ "a" \in DOMAIN envs[1].values
    /\ ret = ErrName("UndefinedIdentifier", "b")

\* C24: bind(instance) on a function gives a new Function and leaves the
\* original as it was, with the closure it had; the closure of the new
\* function is a fresh child of that closure in which `this` is the given
\* instance itself, not a copy of it.
C24_BindMakesNewFunction ==
    [][\A fn \in 2..Len(funs), i \in 1..Len(insts) :
           Bind(fn, i) =>
               /\ Len(funs') = Len(funs) + 1
               /\ \A k \in 1..Len(funs) : funs'[k] = funs[k]
               /\ funs'[Len(funs')].declaration = funs[fn].declaration
               /\ funs'[Len(funs')].closure = Len(envs) + 1
               /\ envs' = Append(envs, [values |-> Put(EmptyMap, "this", InstV(i)),
                                        enclosing |-> funs[fn].closure])
               /\ insts' = insts]_vars

\* C25: the global environment has no parent and every other environment's
\* enclosing link points to an environment that existed before it, so every
\* chain ends at the global environment and no environment is its own
\* ancestor; no step removes an environment or changes an enclosing link.
C25_EnvironmentChainAcyclic ==
    [][/\ \A e \in 1..Len(envs) :
              /\ e <= Len(envs')
              /\ envs'[e].enclosing = envs[e].enclosing
       /\ \A e \in 1..Len(envs') :
              IF e = globals' THEN envs'[e].enclosing = 0
              ELSE envs'[e].enclosing \in 1..(e - 1)
       /\ globals' = 1]_vars

\* the inner block of ProgCollision is running two links below globals
C25_Witness ==
    /\ ProgramIs(ProgCollision)
    /\ status = "running"
    /\ environment = 3
    /\ envs[3].enclosing = 2
    /\ envs[2].enclosing = 1
    /\ envs[1].enclosing = 0

\* C26: when the body of a user function hands its result to the Call that
\* started it, at the end of the body or as a Return signal, the
\* interpreter's current environment is the one that was current when the
\* call started the body (the old_environment of the body's execute_block);
\* the Call itself does not change it afterwards.
C26_CallRestoresEnvironment ==
    [][/\ (/\ Returns("execute_block")
           /\ Len(stack) >= 2
           /\ stack[Len(stack) - 1].node.t = "Call"
           /\ Top(M).pc >= 1
           /\ (ret'.kind = "ok" \/ ret'.e = "Return"))
          => environment' = Top(M).old
       /\ Returns("Call") => environment' = environment]_vars

\* C27: executing a return statement whose value is Empty (`return;`) does
\* not crash: the statement ends with a Return signal carrying Nil.
C27_ReturnWithoutValue ==
    [][(/\ status = "running"
        /\ \E k \in 1..Len(stack) :
               /\ k >= Len(stack) - 1
               /\ stack[k].node = Return(EmptyNode)) =>
            /\ status' # "panic"
            /\ Returns("Return") => ret' = ErrReturn(NilV)]_vars

\* C28: calling a lambda changes no environment that existed before the
\* call, so the environment the lambda was created in gains no binding; and
\* while the body of a lambda runs, a read of one of its parameters gives
\* the argument of the innermost running call of a lambda.
C28_LambdaParameters ==
    [][/\ (/\ Running("Call")
           /\ Top(M).pc = 1
           /\ ret.kind = "ok"
           /\ Len(Top(M).vals) = Len(Top(M).node.arguments)
           /\ CallValues[1].k = "Function"
           /\ funs[CallValues[1].n].name = "anonymous") =>
              \A e \in 1..Len(envs) : envs'[e] = envs[e]
       /\ LET calls == {k \in 1..Len(stack) :
                           /\ stack[k].node.t = "Call"
                           /\ stack[k].pc = 2
                           /\ funs[stack[k].vals[1].n].name = "anonymous"}
              call == stack[Max(calls)]
              params == funs[call.vals[1].n].declaration.params
          IN  (/\ Running("Variable")
               /\ calls # {}
               /\ \E j \in 1..Len(params) : params[j] = Top(M).node.name) =>
                  \E j \in 1..Len(params) :
                      /\ params[j] = Top(M).node.name
                      /\ ret' = Ok(call.vals[j + 1])]_vars

\* C29: resolving a lambda whose body holds a return never fails with
\* InvalidReturnLocation, at top level or inside a function, and leaves the
\* function-kind context as it was.
C29_LambdaAcceptsReturn ==
    [][/\ ResolveExpr(LambdaReturn) =>
              /\ resolver'.err = NoErr
              /\ resolver'.current_function = resolver.current_function
       /\ ResolveStmt(Fun("b", <<>>, <<Expression(LambdaReturn), Return(N(2))>>)) =>
              resolver'.err # "InvalidReturnLocation"]_vars

\* C30 as stated: after a Block, Fun or Class statement is resolved without
\* error the scope stack is exactly what it was before the statement.
C30_ScopesSameAfterStatement ==
    [][\A s \in UnitStmts :
           (/\ s.t \in {"Block", "Fun", "Class"}
            /\ ResolveStmt(s)
            /\ resolver'.err = NoErr) =>
               resolver'.scopes = resolver.scopes]_vars

\* C30, amended: after a Block, Fun or Class statement is resolved without
\* error the scope stack has the depth it had and the scopes it had, but
\* for the name a Fun or Class statement declares, which is now defined in
\* the innermost scope; with an empty stack every call but begin_scope
\* leaves the stack empty, and a name that no scope holds is not recorded
\* in the distance table.
C30_ScopeStackBalanced ==
    [][/\ \A s \in UnitStmts :
              (/\ s.t \in {"Block", "Fun", "Class"}
               /\ ResolveStmt(s)
               /\ resolver'.err = NoErr) =>
                  /\ Len(resolver'.scopes) = Len(resolver.scopes)
                  /\ resolver.scopes # <<>> =>
                         /\ Front(resolver'.scopes) = Front(resolver.scopes)
                         /\ Last(resolver'.scopes) =
                                IF s.t = "Block" THEN Last(resolver.scopes)
                                ELSE Put(Last(resolver.scopes), s.name, TRUE)
       /\ (resolver.scopes = <<>> /\ ~BeginScope /\ resolver'.err = NoErr) =>
              resolver'.scopes = <<>>
       /\ \A nm \in UnitNames :
              (/\ ResolveExpr(V(nm))
               /\ \A k \in 1..Len(resolver.scopes) : nm \notin DOMAIN resolver.scopes[k]) =>
                  locals' = locals]_vars

\* fun b(a) { return a; } was resolved inside a scope: its parameter scope is
\* gone, b is defined in the scope, and the read of a has distance 0
C30_Witness ==
    /\ status = "resolver"
    /\ resolver.err = NoErr
    /\ resolver.scopes = <<Put(EmptyMap, "b", TRUE)>>
    /\ V("a") \in DOMAIN locals
    /\ locals[V("a")] = 0

====
